---- MODULE Spec2Model ----
(***************************************************************************)
(* Model of the SPIMEX trading-results service (a-korvus/EM-block_05):     *)
(*   - the start-scrap endpoint and the scraper task it launches           *)
(*     (app/routers/other.py, app/scraper/main.py, app/utils/tools.py);    *)
(*   - link discovery and the batch download (app/scraper/scraper.py).     *)
(*                                                                         *)
(* Three specifications share one set of variables:                        *)
(*   Spec       the asyncio event loop running start-scrap handlers and    *)
(*              scraper tasks; the stages of a run are awaited calls whose *)
(*              outcome is drawn when the await completes;                 *)
(*   SpecLinks  one call of fetch_links on pages served by the site;       *)
(*   SpecDl     one call of download on a list of links.                   *)
(***************************************************************************)
EXTENDS Integers, Sequences, FiniteSets, TLC

\* ------------------------------------------------------------------ bounds
\* start-scrap requests issued in one behaviour
NReq == 3

Reqs == 1..NReq

\* blocks the site serves to one call of fetch_links, over all its pages
MaxBlocks == 3

\* pages one call of fetch_links requests (page_count is capped here)
MaxFetch == 2

\* days of a year that appear as displayed dates
MaxDay == 2

\* links passed to one call of download
MaxLinks == 3

\* ------------------------------------------------------ program constants
HTTP_200_OK == 200
HTTP_201_CREATED == 201
HTTP_404_NOT_FOUND == 404
\* all_rows: "response = -1" when the table does not exist
TABLE_MISSING == -1
\* scraper.py:127  date.year == 2022
CUTOFF_YEAR == 2022

VARIABLES
    \* ---- event loop, start-scrap handlers, scraper tasks (Spec)
    ready,        \* asyncio's FIFO of task first-steps: <<"req", r>>, <<"run", r>>
    reqPc,        \* handler of request r: "new", "queued", "await_rows", "done"
    rowsInTable,  \* rows_in_table of handler r: <<>> until all_rows returns, then <<n>>
    resp,         \* Response returned by handler r
    runPc,        \* scraper task created by handler r
    runFail,      \* stage at which the task's run raised ("none": it has not)
    runPage,      \* listing page the task's fetch_links is on (0: start_url)
    scrap_event,  \* app.utils.tools.scrap_event (asyncio.Event)
    dirExists,    \* the directory "downloads" exists
    dirFiles,     \* runs whose downloaded files are in "downloads"
    tableExists,  \* the table spimex_trading_results exists
    stored,       \* committed create_data calls (rows are only ever added)
    dbReads,      \* all_rows calls issued so far
    \* ---- fetch_links (SpecLinks)
    lpc,          \* "idle", "fetch", "scan", "lastdate", "paginate",
                  \* "returned", "raised"
    lastDate,     \* what get_last_date returns: max(date) of the table
    currentPage,  \* current_page
    pageCount,    \* page_count
    links,        \* the list fetch_links appends to
    listing,      \* blocks of the pages fetched so far, page by page
    scanned,      \* blocks of the current page the for loop has taken
    nextCtl,      \* the .bx-pag-next control of the current page
    stopParsing,  \* stop_parsing
    lerr,         \* exception fetch_links raised
    \* ---- download (SpecDl)
    dpc,          \* download(): "idle", "gather", "returned", "raised"
    dlLinks,      \* links passed to download
    taskPc,       \* get_file task of link i
    destFiles,    \* files in dest_dir, by filename
    sessionOpen,  \* the ClientSession has not been closed
    \* ---- create_data under run_pg_session (SpecDb)
    ppc,          \* "idle", "loop", "commit", "returned", "raised"
    data,         \* the argument data: file-groups of rows
    fileIdx,      \* file-groups the for loop has finished
    pending,      \* models added to the session, not yet committed
    addCalls,     \* number of models of each session.add_all call, in order
    commits,      \* session.commit calls
    dbRows,       \* rows of the table spimex_trading_results
    rowsBefore,   \* number of rows of the table when create_data was called
    perr,         \* exception create_data raised
    \* ---- query endpoints and the response cache (SpecCache)
    cache,        \* the redis cache: bytes stored under each key, or Nil
    qpc,          \* handler of query q: "new", "get_cache", "db",
                  \* "set_cache", "done"
    qreq,         \* endpoint and parameters of query q
    rawData,      \* data = await redis_client_cache.get(key), as read by q
    cached_data,  \* cached_data of handler q
    query_result, \* query_result of handler q
    qresp,        \* response of handler q
    qCalls,       \* get_cache_data, database and set_cache_data calls of q
    qArgs,        \* keyword arguments of the database query of q
    \* ---- runs one after another on one site (SpecRuns)
    site,         \* displayed dates of the listing entries, in page order
    table,        \* dates of the rows of the table
    spc,          \* the run: "idle", "found", "fetched"
    found,        \* dates of the links the run has discovered, in order
    fetched,      \* dates of the files the run has downloaded
    loads_of,     \* for each date, the number of runs that committed it
    runsDone,     \* runs that have ended
    \* ---- cache keys of two requests (SpecKeys)
    kreq,         \* endpoint and parameters of request q
    kkey          \* cache_key the handler of request q has built

coordVars == <<ready, reqPc, rowsInTable, resp, runPc, runFail, runPage,
               scrap_event, dirExists, dirFiles, tableExists, stored, dbReads>>

linkVars == <<lpc, lastDate, currentPage, pageCount, links, listing, scanned,
              nextCtl, stopParsing, lerr>>

dlVars == <<dpc, dlLinks, taskPc, destFiles, sessionOpen>>

dbVars == <<ppc, data, fileIdx, pending, addCalls, commits, dbRows,
            rowsBefore, perr>>

cacheVars == <<cache, qpc, qreq, rawData, cached_data, query_result, qresp,
               qCalls, qArgs>>

seqVars == <<site, table, spc, found, fetched, loads_of, runsDone>>

keyVars == <<kreq, kkey>>

vars == <<coordVars, linkVars, dlVars, dbVars, cacheVars, seqVars, keyVars>>

\* ------------------------------------------------------------- responses
NoResponse == [code |-> 0, msg |-> "none"]

\* other.py:51  ORJSONResponse({...}) with the default status code
AlreadyRunningResponse ==
    [code |-> HTTP_200_OK, msg |-> "Another scraper is working now."]

\* other.py:55-58
MigrationResponse ==
    [code |-> HTTP_404_NOT_FOUND, msg |-> "Migration needs to be done."]

LaunchedResponseDefaultStatus ==
    [code |-> HTTP_200_OK, msg |-> "The scraper is running."]

\* other.py:62-65
LaunchedResponse ==
    [code |-> HTTP_201_CREATED, msg |-> "The scraper is running."]

\* ------------------------------------------- components at rest
FileNames == 1..MaxLinks

DlIdle ==
    /\ dpc = "idle"
    /\ dlLinks = <<>>
    /\ taskPc = <<>>
    /\ destFiles = [f \in FileNames |-> "absent"]
    /\ sessionOpen = FALSE

DbIdle ==
    /\ ppc = "idle"
    /\ data = <<>>
    /\ fileIdx = 0
    /\ pending = <<>>
    /\ addCalls = <<>>
    /\ commits = 0
    /\ dbRows = <<>>
    /\ rowsBefore = 0
    /\ perr = "none"

\* ---- values of the query endpoints
\* query requests issued in one behaviour
NQ == 2

QReqs == 1..NQ

\* Python values a handler holds: None, or a list (of dates or of rows)
None == [is |-> "None", list |-> <<>>]
List(l) == [is |-> "list", list |-> l]

\* What redis holds under a key: nothing, or the bytes orjson.dumps made
Nil == [is |-> "nil", json |-> <<>>]

NoRequest ==
    [endpoint |-> "none", oil_id |-> "", delivery_type_id |-> "", num |-> 0,
     start_date |-> ""]

\* no database query has been made
NoArgs ==
    [fn |-> "none", oil_id |-> "", delivery_type_id |-> "", num |-> 0,
     date |-> [y |-> 0, m |-> 0, d |-> 0]]

NoAnswer == [code |-> 0, body |-> None]

CacheIdle ==
    /\ cache = <<>>
    /\ qpc = [q \in QReqs |-> "new"]
    /\ qreq = [q \in QReqs |-> NoRequest]
    /\ rawData = [q \in QReqs |-> Nil]
    /\ cached_data = [q \in QReqs |-> None]
    /\ query_result = [q \in QReqs |-> None]
    /\ qresp = [q \in QReqs |-> NoAnswer]
    /\ qCalls = [q \in QReqs |-> [get |-> 0, db |-> 0, set |-> 0]]
    /\ qArgs = [q \in QReqs |-> NoArgs]

SeqIdle ==
    /\ site = <<>>
    /\ table = {}
    /\ spc = "idle"
    /\ found = <<>>
    /\ fetched = {}
    /\ loads_of = <<>>
    /\ runsDone = 0

NoKey == ""

KeysIdle ==
    /\ kreq = [q \in QReqs |-> NoRequest]
    /\ kkey = [q \in QReqs |-> NoKey]

CoordIdle ==
    /\ ready = <<>>
    /\ reqPc = [r \in Reqs |-> "new"]
    /\ rowsInTable = [r \in Reqs |-> <<>>]
    /\ resp = [r \in Reqs |-> NoResponse]
    /\ runPc = [r \in Reqs |-> "none"]
    /\ runFail = [r \in Reqs |-> "none"]
    /\ runPage = [r \in Reqs |-> 0]
    /\ scrap_event = FALSE
    /\ dirExists = FALSE
    /\ dirFiles = {}
    /\ tableExists = TRUE
    /\ stored = 0
    /\ dbReads = 0

\* ------------------------------------------------------------- all_rows
\* query.py:42-54: -1 when the table is missing, else the row count
all_rows == IF tableExists THEN stored ELSE TABLE_MISSING

MigrationNeededNever(rows) == rows < TABLE_MISSING

\* other.py:54  if rows_in_table == -1
MigrationNeeded(rows) == rows = TABLE_MISSING

\* ------------------------------------------------------------ event loop
IsHead(kind, r) == ready # <<>> /\ Head(ready) = <<kind, r>>

Active(t) == runPc[t] \in {"links", "download", "extract", "persist"}

\* A new HTTP request: the server creates the task that runs the handler.
Arrive(r) ==
    /\ reqPc[r] = "new"
    /\ reqPc' = [reqPc EXCEPT ![r] = "queued"]
    /\ ready' = Append(ready, <<"req", r>>)
    /\ UNCHANGED <<rowsInTable, resp, runPc, runFail, scrap_event, dirExists,
                   dirFiles, tableExists, stored, dbReads>>
    /\ UNCHANGED <<runPage, linkVars, dlVars, dbVars, cacheVars,
                 seqVars, keyVars>>

ReqStartQueryFirst(r) ==
    /\ IsHead("req", r)
    /\ ready' = Tail(ready)
    /\ dbReads' = dbReads + 1
    /\ IF scrap_event
       THEN /\ resp' = [resp EXCEPT ![r] = AlreadyRunningResponse]
            /\ reqPc' = [reqPc EXCEPT ![r] = "done"]
       ELSE /\ reqPc' = [reqPc EXCEPT ![r] = "await_rows"]
            /\ UNCHANGED resp
    /\ UNCHANGED <<rowsInTable, runPc, runFail, scrap_event, dirExists,
                   dirFiles, tableExists, stored>>
    /\ UNCHANGED <<runPage, linkVars, dlVars, dbVars, cacheVars,
                 seqVars, keyVars>>

\* start_scrap up to its first suspension: the flag check, then the call of
\* all_rows, which is awaited.
ReqStart(r) ==
    /\ IsHead("req", r)
    /\ ready' = Tail(ready)
    /\ IF scrap_event
       THEN /\ resp' = [resp EXCEPT ![r] = AlreadyRunningResponse]
            /\ reqPc' = [reqPc EXCEPT ![r] = "done"]
            /\ UNCHANGED dbReads
       ELSE /\ reqPc' = [reqPc EXCEPT ![r] = "await_rows"]
            /\ dbReads' = dbReads + 1
            /\ UNCHANGED resp
    /\ UNCHANGED <<rowsInTable, runPc, runFail, scrap_event, dirExists,
                   dirFiles, tableExists, stored>>
    /\ UNCHANGED <<runPage, linkVars, dlVars, dbVars, cacheVars,
                 seqVars, keyVars>>

ReqRowsInline(r) ==
    /\ reqPc[r] = "await_rows"
    /\ rowsInTable' = [rowsInTable EXCEPT ![r] = <<all_rows>>]
    /\ reqPc' = [reqPc EXCEPT ![r] = "done"]
    /\ IF MigrationNeeded(all_rows)
       THEN /\ resp' = [resp EXCEPT ![r] = MigrationResponse]
            /\ UNCHANGED <<runPc, dirExists, scrap_event>>
       ELSE /\ runPc' = [runPc EXCEPT ![r] = "links"]
            /\ dirExists' = TRUE
            /\ scrap_event' = TRUE
            /\ resp' = [resp EXCEPT ![r] = LaunchedResponse]
    /\ UNCHANGED <<ready, runFail, dirFiles, tableExists, stored, dbReads>>
    /\ UNCHANGED <<runPage, linkVars, dlVars, dbVars, cacheVars,
                 seqVars, keyVars>>

\* start_scrap from the return of all_rows to its own return: the sentinel
\* check, asyncio.create_task(scrap_main()), the response.
ReqRows(r) ==
    /\ reqPc[r] = "await_rows"
    /\ rowsInTable' = [rowsInTable EXCEPT ![r] = <<all_rows>>]
    /\ reqPc' = [reqPc EXCEPT ![r] = "done"]
    /\ IF MigrationNeeded(all_rows)
       THEN /\ resp' = [resp EXCEPT ![r] = MigrationResponse]
            /\ UNCHANGED <<runPc, ready>>
       ELSE /\ runPc' = [runPc EXCEPT ![r] = "created"]
            /\ ready' = Append(ready, <<"run", r>>)
            /\ resp' = [resp EXCEPT ![r] = LaunchedResponse]
    /\ UNCHANGED <<runFail, scrap_event, dirExists, dirFiles, tableExists,
                   stored, dbReads>>
    /\ UNCHANGED <<runPage, linkVars, dlVars, dbVars, cacheVars,
                 seqVars, keyVars>>

\* ---------------------------------------------------------- scraper task
RunStartFlagOnly(t) ==
    /\ IsHead("run", t)
    /\ ready' = Tail(ready)
    /\ scrap_event' = TRUE
    /\ runPc' = [runPc EXCEPT ![t] = "links"]
    /\ UNCHANGED <<reqPc, rowsInTable, resp, runFail, dirExists, dirFiles,
                   tableExists, stored, dbReads>>
    /\ UNCHANGED <<runPage, linkVars, dlVars, dbVars, cacheVars,
                 seqVars, keyVars>>

\* main.py:29-57: makedirs, scrap_event.set(), the session is opened and
\* fetch_links is awaited.  Nothing suspends before the first page request.
RunStart(t) ==
    /\ IsHead("run", t)
    /\ ready' = Tail(ready)
    /\ dirExists' = TRUE
    /\ scrap_event' = TRUE
    /\ runPc' = [runPc EXCEPT ![t] = "links"]
    /\ UNCHANGED <<reqPc, rowsInTable, resp, runFail, dirFiles, tableExists,
                   stored, dbReads>>
    /\ UNCHANGED <<runPage, linkVars, dlVars, dbVars, cacheVars,
                 seqVars, keyVars>>

FinallyKeepFlag(t, stage) ==
    /\ runPc' = [runPc EXCEPT ![t] = "done"]
    /\ dirExists' = FALSE
    /\ dirFiles' = {}
    /\ runFail' = [runFail EXCEPT ![t] = IF dirExists THEN stage ELSE "rmtree"]
    /\ UNCHANGED scrap_event

FinallyOnSuccessOnly(t, stage) ==
    /\ runPc' = [runPc EXCEPT ![t] = "done"]
    /\ IF dirExists /\ stage = "none"
       THEN /\ dirExists' = FALSE
            /\ dirFiles' = {}
            /\ scrap_event' = FALSE
            /\ runFail' = [runFail EXCEPT ![t] = stage]
       ELSE /\ runFail' = [runFail EXCEPT ![t] =
                              IF dirExists THEN stage ELSE "rmtree"]
            /\ UNCHANGED <<dirExists, dirFiles, scrap_event>>

\* main.py:62-64: the finally block.  rmtree raises FileNotFoundError when
\* the directory is gone, and then scrap_event.clear() is not reached.
Finally(t, stage) ==
    /\ runPc' = [runPc EXCEPT ![t] = "done"]
    /\ IF dirExists
       THEN /\ dirExists' = FALSE
            /\ dirFiles' = {}
            /\ scrap_event' = FALSE
            /\ runFail' = [runFail EXCEPT ![t] = stage]
       ELSE /\ runFail' = [runFail EXCEPT ![t] = "rmtree"]
            /\ UNCHANGED <<dirExists, dirFiles, scrap_event>>

RunLinksSwallow(t) ==
    /\ runPc[t] = "links"
    /\ runPc' = [runPc EXCEPT ![t] = "download"]
    /\ \/ UNCHANGED runFail
       \/ runFail' = [runFail EXCEPT ![t] = "links"]
    /\ UNCHANGED <<scrap_event, dirExists, dirFiles>>
    /\ UNCHANGED <<ready, reqPc, rowsInTable, resp, tableExists, stored,
                   dbReads>>
    /\ UNCHANGED <<runPage, linkVars, dlVars, dbVars, cacheVars,
                 seqVars, keyVars>>

\* main.py:57: fetch_links returns, or raises (page request failed, timed
\* out, malformed listing) and the run goes to its finally block.
RunLinks(t) ==
    /\ runPc[t] = "links"
    /\ \/ /\ runPc' = [runPc EXCEPT ![t] = "download"]
          /\ UNCHANGED <<runFail, scrap_event, dirExists, dirFiles>>
       \/ Finally(t, "links")
    /\ UNCHANGED <<ready, reqPc, rowsInTable, resp, tableExists, stored,
                   dbReads>>
    /\ UNCHANGED <<runPage, linkVars, dlVars, dbVars, cacheVars,
                 seqVars, keyVars>>

\* main.py:58: download returns after writing files (the directory must
\* exist for aiofiles.open), returns with nothing written, or raises.
RunDownload(t) ==
    /\ runPc[t] = "download"
    /\ \/ /\ dirExists
          /\ dirFiles' = dirFiles \cup {t}
          /\ runPc' = [runPc EXCEPT ![t] = "extract"]
          /\ UNCHANGED <<runFail, scrap_event, dirExists>>
       \/ /\ runPc' = [runPc EXCEPT ![t] = "extract"]
          /\ UNCHANGED <<runFail, scrap_event, dirExists, dirFiles>>
       \/ Finally(t, "download")
    /\ UNCHANGED <<ready, reqPc, rowsInTable, resp, tableExists, stored,
                   dbReads>>
    /\ UNCHANGED <<runPage, linkVars, dlVars, dbVars, cacheVars,
                 seqVars, keyVars>>

RunExtractSwallow(t) ==
    /\ runPc[t] = "extract"
    /\ runPc' = [runPc EXCEPT ![t] = "persist"]
    /\ \/ UNCHANGED runFail
       \/ runFail' = [runFail EXCEPT ![t] = "extract"]
    /\ UNCHANGED <<scrap_event, dirExists, dirFiles>>
    /\ UNCHANGED <<ready, reqPc, rowsInTable, resp, tableExists, stored,
                   dbReads>>
    /\ UNCHANGED <<runPage, linkVars, dlVars, dbVars, cacheVars,
                 seqVars, keyVars>>

\* main.py:60: async_extract returns the rows, or raises.
RunExtract(t) ==
    /\ runPc[t] = "extract"
    /\ \/ /\ runPc' = [runPc EXCEPT ![t] = "persist"]
          /\ UNCHANGED <<runFail, scrap_event, dirExists, dirFiles>>
       \/ Finally(t, "extract")
    /\ UNCHANGED <<ready, reqPc, rowsInTable, resp, tableExists, stored,
                   dbReads>>
    /\ UNCHANGED <<runPage, linkVars, dlVars, dbVars, cacheVars,
                 seqVars, keyVars>>

\* main.py:61: create_data commits (the table must exist), or raises; either
\* way the finally block follows without a suspension.
RunPersist(t) ==
    /\ runPc[t] = "persist"
    /\ \/ /\ tableExists
          /\ stored' = stored + 1
          /\ Finally(t, "none")
       \/ /\ UNCHANGED stored
          /\ Finally(t, "persist")
    /\ UNCHANGED <<ready, reqPc, rowsInTable, resp, tableExists, dbReads>>
    /\ UNCHANGED <<runPage, linkVars, dlVars, dbVars, cacheVars,
                 seqVars, keyVars>>

\* The migration is applied from outside the service.
Migrate ==
    /\ ~tableExists
    /\ tableExists' = TRUE
    /\ UNCHANGED <<ready, reqPc, rowsInTable, resp, runPc, runFail,
                   scrap_event, dirExists, dirFiles, stored, dbReads>>
    /\ UNCHANGED <<runPage, linkVars, dlVars, dbVars, cacheVars,
                 seqVars, keyVars>>

\* ------------------------------------------------------------ link discovery
\* Displayed dates are strings "dd.mm.YYYY": the day first, the year last
\* (one month is modelled).  datetime orders by year, then day.
Days == 1..MaxDay
Years == (CUTOFF_YEAR - 1)..(CUTOFF_YEAR + 1)
DateStrs == Days \X Years
NoDateStr == <<0, 0>>

\* get_last_date returns None on an empty table
NoDate == [year |-> 0, day |-> 0]
DateTimes == [year : Years, day : Days]

\* scraper.py:125  datetime.strptime(date_str, "%d.%m.%Y")
strptime(ds) == [year |-> ds[2], day |-> ds[1]]

\* datetime.__le__
DtLe(a, b) == a.year < b.year \/ (a.year = b.year /\ a.day <= b.day)

\* The href of a block's anchor: a path with an extension, or no string.
NotAString == [id |-> 0, ext |-> "none"]
Hrefs == {[id |-> 1, ext |-> "xls"]}

\* The blocks "div.accordeon-inner__wrap-item" a page can hold:
\*   bulletin  anchor labelled with the marker, span with a parsable date
\*   other     anchor without the marker (what else it holds is not read)
\*   noanchor  no <a> tag            nospan   marker, but no <span> tag
\*   nodate    span.string is None   baddate  span string strptime rejects
Blocks ==
    [kind : {"bulletin"}, ds : DateStrs, href : Hrefs \cup {NotAString}]
    \cup [kind : {"other", "noanchor", "nospan", "nodate", "baddate"},
          ds : {NoDateStr}, href : {NotAString}]

\* The next-page control of a page: absent, an anchor with the href of a
\* listing page (the start URL 0 or another URL 1, so a control can point
\* back to the page it is on), or malformed (no anchor / href not a string).
Urls == {0, 1}
Unread == [kind |-> "unread", url |-> 0]
Controls ==
    [kind : {"absent", "noanchor", "badhref"}, url : {0}]
    \cup [kind : {"next"}, url : Urls]

RECURSIVE SumLen(_)
SumLen(pages) ==
    IF pages = <<>> THEN 0 ELSE Len(Head(pages)) + SumLen(Tail(pages))

\* What lies behind the block at which discovery stops: nothing, or a next
\* block (the page is recorded up to that block).
Tails ==
    {t \in {<<>>} \cup {<<b>> : b \in Blocks} :
        SumLen(listing) + Len(t) <= MaxBlocks}

\* What lies behind a block without the marker: nothing, or a bulletin
\* entry with a link, of any year.
OtherTails ==
    {t \in {<<>>} \cup {<<b>> : b \in [kind : {"bulletin"},
                                      ds : {1} \X Years, href : Hrefs]} :
        SumLen(listing) + 1 + Len(t) <= MaxBlocks}

CurPage == listing[Len(listing)]

WithBlocks(bs) == [listing EXCEPT ![Len(listing)] = CurPage \o bs]

StopConditionStrict(date, last_dt) ==
    (last_dt # NoDate /\ DtLe(date, last_dt) /\ date # last_dt)
    \/ date.year = CUTOFF_YEAR

StopConditionNoneStops(date, last_dt) ==
    (last_dt = NoDate \/ DtLe(date, last_dt)) \/ date.year = CUTOFF_YEAR

StopConditionNoCutoff(date, last_dt) ==
    last_dt # NoDate /\ DtLe(date, last_dt)

\* scraper.py:127  (last_dt and date <= last_dt) or date.year == 2022
StopCondition(date, last_dt) ==
    (last_dt # NoDate /\ DtLe(date, last_dt)) \/ date.year = CUTOFF_YEAR

\* scraper.py:142-147  (link, filename) with filename = f"{date_str}.{ext}"
MakeLink(b) ==
    [url |-> b.href.id, filename |-> [ds |-> b.ds, ext |-> b.href.ext]]

LinksRaise(e) ==
    /\ lpc' = "raised"
    /\ lerr' = e

MalformedBlockSkipped ==
    /\ lpc' = "scan"
    /\ UNCHANGED lerr

\* scraper.py:103-107,112-116,119-123,134-138  raise ValueError(...); the
\* same for the date string strptime rejects (scraper.py:125)
MalformedBlock == LinksRaise("ValueError")

\* scraper.py:95  soup = await parse_html(session, abs_url): the page
\* arrives, or fetch_html raises ClientError, or exits on a timeout, or
\* parse_html raises ValueError on an empty response.
FetchPage ==
    /\ lpc = "fetch"
    /\ \/ /\ lpc' = "scan"
          /\ listing' = Append(listing, <<>>)
          /\ scanned' = 0
          /\ nextCtl' = Unread
          /\ stopParsing' = FALSE
          /\ UNCHANGED lerr
       \/ /\ \E e \in {"ClientError", "SystemExit", "ValueError"} : LinksRaise(e)
          /\ UNCHANGED <<listing, scanned, nextCtl, stopParsing>>
    /\ UNCHANGED <<lastDate, currentPage, pageCount, links>>
    /\ UNCHANGED <<coordVars, dlVars, dbVars, cacheVars,
                 seqVars, keyVars>>

\* scraper.py:101-123,152-153: the for loop takes the next block, up to the
\* await of get_last_date; or the blocks are exhausted.  A block without
\* the marker breaks the for loop: the page is recorded with what lies
\* behind that block.
NextItemOtherSkipped ==
    /\ lpc = "scan"
    /\ \/ /\ lpc' = "paginate"
          /\ UNCHANGED <<listing, scanned, lerr>>
       \/ /\ SumLen(listing) < MaxBlocks
          /\ \E b \in Blocks :
               /\ scanned' = scanned + 1
               /\ listing' = WithBlocks(<<b>>)
               /\ CASE b.kind = "noanchor" -> MalformedBlock
                    [] b.kind = "other" ->
                         /\ lpc' = "scan"
                         /\ UNCHANGED lerr
                    [] b.kind \in {"nospan", "nodate", "baddate"} ->
                         MalformedBlock
                    [] b.kind = "bulletin" ->
                         /\ lpc' = "lastdate"
                         /\ UNCHANGED lerr
    /\ UNCHANGED <<lastDate, currentPage, pageCount, links, nextCtl,
                   stopParsing>>
    /\ UNCHANGED <<coordVars, dlVars, dbVars, cacheVars,
                 seqVars, keyVars>>

NextItem ==
    /\ lpc = "scan"
    /\ \/ /\ lpc' = "paginate"
          /\ UNCHANGED <<listing, scanned, lerr>>
       \/ /\ SumLen(listing) < MaxBlocks
          /\ \E b \in Blocks :
               /\ scanned' = scanned + 1
               /\ CASE b.kind = "other" ->
                         \E t \in OtherTails :
                             listing' = WithBlocks(<<b>> \o t)
                    [] OTHER -> listing' = WithBlocks(<<b>>)
               /\ CASE b.kind = "noanchor" -> MalformedBlock
                    [] b.kind = "other" ->
                         /\ lpc' = "paginate"
                         /\ UNCHANGED lerr
                    [] b.kind \in {"nospan", "nodate", "baddate"} ->
                         MalformedBlock
                    [] b.kind = "bulletin" ->
                         /\ lpc' = "lastdate"
                         /\ UNCHANGED lerr
    /\ UNCHANGED <<lastDate, currentPage, pageCount, links, nextCtl,
                   stopParsing>>
    /\ UNCHANGED <<coordVars, dlVars, dbVars, cacheVars,
                 seqVars, keyVars>>

\* scraper.py:126-151,155-157: get_last_date returns; the stop condition,
\* the href check, the append.  A stop leaves the for and the while loop.
CheckDate ==
    /\ lpc = "lastdate"
    /\ LET b == CurPage[scanned]
           date == strptime(b.ds)
           last_dt == lastDate
       IN  IF StopCondition(date, last_dt)
           THEN /\ stopParsing' = TRUE
                /\ lpc' = "returned"
                /\ \E t \in Tails : listing' = WithBlocks(t)
                /\ UNCHANGED <<links, nextCtl, lerr>>
           ELSE IF b.href = NotAString
           THEN /\ MalformedBlock
                /\ UNCHANGED <<links, listing, nextCtl, stopParsing>>
           ELSE /\ links' = Append(links, MakeLink(b))
                /\ lpc' = "scan"
                /\ UNCHANGED <<listing, nextCtl, stopParsing, lerr>>
    /\ UNCHANGED <<lastDate, currentPage, pageCount, scanned>>
    /\ UNCHANGED <<coordVars, dlVars, dbVars, cacheVars,
                 seqVars, keyVars>>

PaginateAlways ==
    /\ lpc = "paginate"
    /\ \E c \in Controls :
         /\ nextCtl' = c
         /\ CASE c.kind \in {"noanchor", "badhref"} ->
                   /\ LinksRaise("ValueError")
                   /\ UNCHANGED <<currentPage, pageCount>>
              [] c.kind \in {"absent", "next"} ->
                   /\ pageCount < MaxFetch
                   /\ currentPage' = c.url
                   /\ pageCount' = pageCount + 1
                   /\ lpc' = "fetch"
                   /\ UNCHANGED lerr
    /\ UNCHANGED <<lastDate, links, listing, scanned, stopParsing>>
    /\ UNCHANGED <<coordVars, dlVars, dbVars, cacheVars,
                 seqVars, keyVars>>

\* scraper.py:160-178,92: the next-page control; following it starts the
\* next iteration of the while loop (page_count += 1, the page request).
Paginate ==
    /\ lpc = "paginate"
    /\ \E c \in Controls :
         /\ nextCtl' = c
         /\ CASE c.kind = "absent" ->
                   /\ lpc' = "returned"
                   /\ UNCHANGED <<currentPage, pageCount, lerr>>
              [] c.kind \in {"noanchor", "badhref"} ->
                   /\ LinksRaise("ValueError")
                   /\ UNCHANGED <<currentPage, pageCount>>
              [] c.kind = "next" ->
                   /\ pageCount < MaxFetch
                   /\ currentPage' = c.url
                   /\ pageCount' = pageCount + 1
                   /\ lpc' = "fetch"
                   /\ UNCHANGED lerr
    /\ UNCHANGED <<lastDate, links, listing, scanned, stopParsing>>
    /\ UNCHANGED <<coordVars, dlVars, dbVars, cacheVars,
                 seqVars, keyVars>>

\* fetch_links(session, domain, start_url, links) has been called with an
\* empty list (main.py:39,57) and awaits its first page; the table holds
\* any last date, or none.
InitLinks ==
    /\ CoordIdle
    /\ DlIdle
    /\ DbIdle
    /\ CacheIdle
    /\ SeqIdle
    /\ KeysIdle
    /\ lpc = "fetch"
    /\ lastDate \in DateTimes \cup {NoDate}
    /\ currentPage = 0
    /\ pageCount = 1
    /\ links = <<>>
    /\ listing = <<>>
    /\ scanned = 0
    /\ nextCtl = Unread
    /\ stopParsing = FALSE
    /\ lerr = "none"

NextLinks ==
    \/ FetchPage
    \/ NextItem
    \/ CheckDate
    \/ Paginate

SpecLinks == InitLinks /\ [][NextLinks]_vars


LinksIdle ==
    /\ lpc = "idle"
    /\ lastDate = NoDate
    /\ currentPage = 0
    /\ pageCount = 0
    /\ links = <<>>
    /\ listing = <<>>
    /\ scanned = 0
    /\ nextCtl = Unread
    /\ stopParsing = FALSE
    /\ lerr = "none"

\* ------------------------------------------------------------------ download
\* get_file task of link i (scraper.py:181-203):
\*   "pending"    session.get(url) is awaited
\*   "streaming"  the file is open for writing, chunks are read and written
\*   "ok"         the body was written out; the coroutine returned
\*   "failed"     ClientError was caught and logged; the coroutine returned
\*   "raised"     an exception other than ClientError left the coroutine
Tasks == 1..Len(dlLinks)

FileOf(i) == dlLinks[i].filename

\* scraper.py:202  except ClientError
Caught == {"ClientError"}

\* What a request can raise: aiohttp.ClientError (connection, payload,
\* status), or asyncio.TimeoutError when ClientTimeout(total=600) expires
\* (main.py:43), which is not a ClientError (as fetch_html's two except
\* clauses, scraper.py:36-41, tell apart).
RequestErrors == {"ClientError", "TimeoutError"}

\* scraper.py:196-203: the exception is logged and dropped, or propagates
GetFileExcept(i, e) ==
    taskPc' = [taskPc EXCEPT ![i] = IF e \in Caught THEN "failed" ELSE "raised"]

\* scraper.py:197-198: the response arrives and the file is opened "wb"
Respond(i) ==
    /\ dpc # "idle"
    /\ i \in Tasks
    /\ taskPc[i] = "pending"
    /\ sessionOpen
    /\ taskPc' = [taskPc EXCEPT ![i] = "streaming"]
    /\ destFiles' = [destFiles EXCEPT ![FileOf(i)] = "partial"]
    /\ UNCHANGED <<dpc, dlLinks, sessionOpen>>
    /\ UNCHANGED <<coordVars, linkVars, dbVars, cacheVars,
                 seqVars, keyVars>>

\* scraper.py:199-201: the last chunk is written, the file is closed
Finish(i) ==
    /\ dpc # "idle"
    /\ i \in Tasks
    /\ taskPc[i] = "streaming"
    /\ sessionOpen
    /\ taskPc' = [taskPc EXCEPT ![i] = "ok"]
    /\ destFiles' = [destFiles EXCEPT ![FileOf(i)] = "complete"]
    /\ UNCHANGED <<dpc, dlLinks, sessionOpen>>
    /\ UNCHANGED <<coordVars, linkVars, dbVars, cacheVars,
                 seqVars, keyVars>>

\* scraper.py:197-203: the request or a chunk read raises.  On a closed
\* session the connection is gone: ClientError.
RequestRaises(i) ==
    /\ dpc # "idle"
    /\ i \in Tasks
    /\ taskPc[i] \in {"pending", "streaming"}
    /\ \E e \in RequestErrors :
         /\ ~sessionOpen => e = "ClientError"
         /\ GetFileExcept(i, e)
    /\ UNCHANGED <<dpc, dlLinks, destFiles, sessionOpen>>
    /\ UNCHANGED <<coordVars, linkVars, dbVars, cacheVars,
                 seqVars, keyVars>>

\* scraper.py:223-224: gather delivers once every get_file has returned
GatherReturns ==
    /\ dpc = "gather"
    /\ \A i \in Tasks : taskPc[i] \in {"ok", "failed"}
    /\ dpc' = "returned"
    /\ UNCHANGED <<dlLinks, taskPc, destFiles, sessionOpen>>
    /\ UNCHANGED <<coordVars, linkVars, dbVars, cacheVars,
                 seqVars, keyVars>>

\* scraper.py:223: gather (return_exceptions=False) re-raises the first
\* exception of a task to download's caller; the other tasks run on.
GatherRaises ==
    /\ dpc = "gather"
    /\ \E i \in Tasks : taskPc[i] = "raised"
    /\ dpc' = "raised"
    /\ UNCHANGED <<dlLinks, taskPc, destFiles, sessionOpen>>
    /\ UNCHANGED <<coordVars, linkVars, dbVars, cacheVars,
                 seqVars, keyVars>>

\* main.py:51-58: download has returned or raised to main, which leaves
\* "async with ClientSession": the session and its connections are closed.
SessionClose ==
    /\ dpc \in {"returned", "raised"}
    /\ sessionOpen
    /\ sessionOpen' = FALSE
    /\ UNCHANGED <<dpc, dlLinks, taskPc, destFiles>>
    /\ UNCHANGED <<coordVars, linkVars, dbVars, cacheVars,
                 seqVars, keyVars>>

\* download(session, links, dest_dir) has been called on an open session and
\* an empty directory; gather has scheduled one get_file per link.  Link i
\* has its own URL; filenames may repeat.
InitDl ==
    /\ CoordIdle
    /\ LinksIdle
    /\ DbIdle
    /\ CacheIdle
    /\ SeqIdle
    /\ KeysIdle
    /\ dpc = "gather"
    /\ \E n \in 0..MaxLinks :
         /\ dlLinks \in [1..n -> [url : 1..n, filename : FileNames]]
         /\ \A i \in 1..n : dlLinks[i].url = i /\ dlLinks[i].filename <= i
         /\ taskPc = [i \in 1..n |-> "pending"]
    /\ destFiles = [f \in FileNames |-> "absent"]
    /\ sessionOpen = TRUE

NextDl ==
    \/ \E i \in 1..MaxLinks : Respond(i)
    \/ \E i \in 1..MaxLinks : Finish(i)
    \/ \E i \in 1..MaxLinks : RequestRaises(i)
    \/ GatherReturns
    \/ GatherRaises
    \/ SessionClose

SpecDl == InitDl /\ [][NextDl]_vars

\* --------------------------------------------------------------- persistence
\* create_data(data, session) called through run_pg_session (main.py:61).
\* A string value is represented by its length; the numeric fields and the
\* date of a row are of the declared types.

\* file-groups passed to one call of create_data
MaxGroups == 2

\* rows of one file-group
MaxRows == 2

\* schemas.py:12-17  Field(..., max_length=n)
max_length ==
    [exchange_product_id |-> 11, exchange_product_name |-> 255,
     oil_id |-> 4, delivery_basis_id |-> 3, delivery_basis_name |-> 255,
     delivery_type_id |-> 1]

StrFields == DOMAIN max_length

\* A row with every string at its maximal length, and one whose
\* delivery_type_id is one character too long.
ValidRow == max_length
LongRow == [ValidRow EXCEPT !.delivery_type_id = @ + 1]

\* Rows whose strings are empty, of maximal length, or one character longer.
Lengths(f) == {0, max_length[f], max_length[f] + 1}

BoundaryRows ==
    [exchange_product_id : Lengths("exchange_product_id"),
     exchange_product_name : Lengths("exchange_product_name"),
     oil_id : Lengths("oil_id"),
     delivery_basis_id : Lengths("delivery_basis_id"),
     delivery_basis_name : Lengths("delivery_basis_name"),
     delivery_type_id : Lengths("delivery_type_id")]

Groups == UNION {[1..n -> {ValidRow, LongRow}] : n \in 0..MaxRows}

DataInputs ==
    UNION {[1..n -> Groups] : n \in 0..MaxGroups}
    \cup {<<(<<row>>)>> : row \in BoundaryRows}

\* schemas.py:9-21  pydantic raises ValidationError for a string longer
\* than max_length; no min_length is declared
ValidationFails(row) == \E f \in StrFields : row[f] > max_length[f]

\* schemas.py:9-21  the instance holds the field values as given
ResultSchema(row) == [f \in StrFields |-> row[f]]

\* query.py:70  result.model_dump()
model_dump(schema) == schema

\* query.py:70  ResultModel(**...)
ResultModel(fields) == fields

SessionExitCommits ==
    /\ pending' = <<>>
    /\ dbRows' = dbRows \o pending

\* setup.py:44-46: leaving "async with async_session()" closes the session;
\* what was added and not committed is discarded.
SessionExit ==
    /\ pending' = <<>>
    /\ UNCHANGED dbRows

AddAllCommitting(models) ==
    /\ pending' = <<>>
    /\ addCalls' = Append(addCalls, Len(models))
    /\ commits' = commits + 1
    /\ dbRows' = dbRows \o pending \o models

AddAllReplacing(models) ==
    /\ pending' = models
    /\ addCalls' = Append(addCalls, Len(models))
    /\ UNCHANGED <<commits, dbRows>>

\* query.py:72  session.add_all(models): the models wait in the session
AddAll(models) ==
    /\ pending' = pending \o models
    /\ addCalls' = Append(addCalls, Len(models))
    /\ UNCHANGED <<commits, dbRows>>

\* query.py:68-72: one iteration of the for loop -- every row of the
\* file-group is validated, then the models are built and added.
NextGroup ==
    /\ ppc = "loop"
    /\ fileIdx < Len(data)
    /\ LET file_data == data[fileIdx + 1]
       IN  IF \E k \in 1..Len(file_data) : ValidationFails(file_data[k])
           THEN /\ ppc' = "raised"
                /\ perr' = "ValidationError"
                /\ SessionExit
                /\ UNCHANGED <<fileIdx, addCalls, commits>>
           ELSE /\ AddAll([k \in 1..Len(file_data) |->
                            ResultModel(model_dump(ResultSchema(file_data[k])))])
                /\ fileIdx' = fileIdx + 1
                /\ UNCHANGED <<ppc, perr>>
    /\ UNCHANGED <<data, rowsBefore>>
    /\ UNCHANGED <<coordVars, linkVars, dlVars, cacheVars,
                 seqVars, keyVars>>

\* query.py:74  the loop is over; session.commit() is called and awaited
CallCommit ==
    /\ ppc = "loop"
    /\ fileIdx = Len(data)
    /\ ppc' = "commit"
    /\ commits' = commits + 1
    /\ UNCHANGED <<data, fileIdx, pending, addCalls, dbRows, rowsBefore, perr>>
    /\ UNCHANGED <<coordVars, linkVars, dlVars, cacheVars,
                 seqVars, keyVars>>

\* query.py:74-75: the transaction commits and create_data returns, or the
\* database rejects it (connection lost, a value the column type refuses)
\* and the exception leaves create_data and run_pg_session.
CommitDone ==
    /\ ppc = "commit"
    /\ \/ /\ dbRows' = dbRows \o pending
          /\ pending' = <<>>
          /\ ppc' = "returned"
          /\ UNCHANGED perr
       \/ /\ ppc' = "raised"
          /\ perr' = "DBAPIError"
          /\ SessionExit
    /\ UNCHANGED <<data, fileIdx, addCalls, commits, rowsBefore>>
    /\ UNCHANGED <<coordVars, linkVars, dlVars, cacheVars,
                 seqVars, keyVars>>

\* run_pg_session(create_data, data_to_db) has been called: the session is
\* new, the table holds the rows of earlier runs.
InitDb ==
    /\ CoordIdle
    /\ LinksIdle
    /\ DlIdle
    /\ CacheIdle
    /\ SeqIdle
    /\ KeysIdle
    /\ ppc = "loop"
    /\ data \in DataInputs
    /\ fileIdx = 0
    /\ pending = <<>>
    /\ addCalls = <<>>
    /\ commits = 0
    /\ dbRows \in {<<>>, <<ValidRow>>}
    /\ rowsBefore = Len(dbRows)
    /\ perr = "none"

NextDb ==
    \/ NextGroup
    \/ CallCommit
    \/ CommitDone

SpecDb == InitDb /\ [][NextDb]_vars

\* ------------------------------------------------------- query endpoints
\* get_data.py: the three endpoints read the cache, and on a miss query the
\* database and store the result.  Handlers of concurrent requests
\* interleave at their awaits.

\* largest value of the parameter days
MaxQDays == 2

HTTP_400_BAD_REQUEST == 400

\* an optional query parameter that is not given
NotGiven == "<None>"

\* start_date / end_date: a date "%Y-%m-%d" or a string strptime rejects
GoodDate == "2025-04-01"
BadDate == "01.04.2025"

\* The requests FastAPI hands to the handlers (days >= 1 is checked by
\* Query(ge=1) before the handler runs); fields an endpoint does not have
\* are left at a fixed value.
Requests ==
    [endpoint : {"get_last_trading_dates"}, oil_id : {NotGiven},
     delivery_type_id : {NotGiven}, num : 1..MaxQDays,
     start_date : {GoodDate}]
    \cup [endpoint : {"get_dynamics"}, oil_id : {"A100"},
          delivery_type_id : {"A"}, num : {0},
          start_date : {GoodDate, BadDate}]
    \cup [endpoint : {"get_trading_results"}, oil_id : {NotGiven, "", "A100"},
          delivery_type_id : {NotGiven, "A"}, num : {0, 1},
          start_date : {GoodDate}]

\* Python truth value of an optional string: None and "" are false
Given(x) == x # NotGiven /\ x # ""

\* x or "-"
OrDash(x) == IF Given(x) THEN x ELSE "-"

\* get_data.py:82  datetime.strptime(start_date, "%Y-%m-%d")
strptime_ymd(d) ==
    IF d = GoodDate THEN [y |-> 2025, m |-> 4, d |-> 1]
    ELSE [y |-> 0, m |-> 0, d |-> 0]

\* str(n) of an f-string, for one digit
Digits == <<"0", "1", "2", "3", "4", "5", "6", "7", "8", "9">>
str(n) == Digits[n + 1]

\* get_data.py:41,89-92,151-154  cache_key, as the parts the f-string joins
cache_key(req) ==
    CASE req.endpoint = "get_last_trading_dates" ->
           <<"last_tr_dt", str(req.num)>>
      [] req.endpoint = "get_dynamics" ->
           <<"dynamics", req.oil_id, req.delivery_type_id, req.start_date>>
      [] req.endpoint = "get_trading_results" ->
           <<"trade_results", OrDash(req.oil_id),
             OrDash(req.delivery_type_id), str(req.num)>>

\* Results a database query can give: no row, or some rows
QueryResults == {List(<<>>), List(<<"r1">>)}

\* caching.py:21-39  orjson.dumps(value)
serialize(value) == [is |-> "bytes", json |-> value.list]

\* caching.py:59  orjson.loads(data)
loads(bytes) == List(bytes.json)

\* Python truth value of a list or None: None and [] are false
Truthy(x) == x.is = "list" /\ x.list # <<>>

\* redis GET
RedisGet(key) == IF key \in DOMAIN cache THEN cache[key] ELSE Nil

\* caching.py:52-59  get_cache_data: "orjson.loads(data) if data else None"
\* (dumps never makes empty bytes, so data is false only when missing)
get_cache_data(key) ==
    IF RedisGet(key).is = "bytes" THEN loads(RedisGet(key)) ELSE None

RejectionLimitFirst(req) ==
    CASE req.endpoint = "get_dynamics" /\ req.start_date = BadDate ->
           HTTP_400_BAD_REQUEST
      [] req.endpoint = "get_trading_results" /\ req.num <= 0 ->
           HTTP_400_BAD_REQUEST
      [] /\ req.endpoint = "get_trading_results"
         /\ ~Given(req.oil_id)
         /\ ~Given(req.delivery_type_id) ->
           HTTP_404_NOT_FOUND
      [] OTHER -> 0

\* get_data.py:81-87,140-149: what the handler checks before the cache
\* (0: the request passes)
Rejection(req) ==
    CASE req.endpoint = "get_dynamics" /\ req.start_date = BadDate ->
           HTTP_400_BAD_REQUEST
      [] /\ req.endpoint = "get_trading_results"
         /\ ~Given(req.oil_id)
         /\ ~Given(req.delivery_type_id) ->
           HTTP_404_NOT_FOUND
      [] req.endpoint = "get_trading_results" /\ req.num <= 0 ->
           HTTP_400_BAD_REQUEST
      [] OTHER -> 0

BumpCall(q, what) == qCalls' = [qCalls EXCEPT ![q][what] = @ + 1]

\* get_data.py:47-50,98-105,160-166: the query function called and the
\* keyword arguments it is given (get_dynamics passes the parsed date)
DbKwargs(req) ==
    CASE req.endpoint = "get_last_trading_dates" ->
           [fn |-> "q_get_last_trading_dates", oil_id |-> NotGiven,
            delivery_type_id |-> NotGiven, num |-> req.num,
            date |-> NoArgs.date]
      [] req.endpoint = "get_dynamics" ->
           [fn |-> "q_get_dynamics", oil_id |-> req.oil_id,
            delivery_type_id |-> req.delivery_type_id, num |-> 0,
            date |-> strptime_ymd(req.start_date)]
      [] req.endpoint = "get_trading_results" ->
           [fn |-> "q_get_trading_results", oil_id |-> req.oil_id,
            delivery_type_id |-> req.delivery_type_id, num |-> req.num,
            date |-> NoArgs.date]

\* A request arrives; the handler runs up to "await get_cache_data(...)",
\* or raises HTTPException.
QStart(q) ==
    /\ qpc[q] = "new"
    /\ \E req \in Requests :
         /\ qreq' = [qreq EXCEPT ![q] = req]
         /\ IF Rejection(req) # 0
            THEN /\ qresp' = [qresp EXCEPT ![q] =
                                 [code |-> Rejection(req), body |-> None]]
                 /\ qpc' = [qpc EXCEPT ![q] = "done"]
                 /\ UNCHANGED qCalls
            ELSE /\ qpc' = [qpc EXCEPT ![q] = "get_cache"]
                 /\ BumpCall(q, "get")
                 /\ UNCHANGED qresp
    /\ UNCHANGED <<cache, rawData, cached_data, query_result, qArgs>>
    /\ UNCHANGED <<coordVars, linkVars, dlVars, dbVars,
                 seqVars, keyVars>>

\* get_data.py:42-50,93-105,155-166: get_cache_data returns; "if
\* cached_data: return cached_data", else the database query is awaited.
QGetCache(q) ==
    /\ qpc[q] = "get_cache"
    /\ LET key == cache_key(qreq[q])
           got == get_cache_data(key)
       IN  /\ rawData' = [rawData EXCEPT ![q] = RedisGet(key)]
           /\ cached_data' = [cached_data EXCEPT ![q] = got]
           /\ IF Truthy(got)
              THEN /\ qresp' = [qresp EXCEPT ![q] =
                                   [code |-> HTTP_200_OK, body |-> got]]
                   /\ qpc' = [qpc EXCEPT ![q] = "done"]
                   /\ UNCHANGED <<qCalls, qArgs>>
              ELSE /\ qpc' = [qpc EXCEPT ![q] = "db"]
                   /\ BumpCall(q, "db")
                   /\ qArgs' = [qArgs EXCEPT ![q] = DbKwargs(qreq[q])]
                   /\ UNCHANGED qresp
    /\ UNCHANGED <<cache, qreq, query_result>>
    /\ UNCHANGED <<coordVars, linkVars, dlVars, dbVars,
                 seqVars, keyVars>>

\* get_data.py:47-51,98-111,160-172: the query returns; set_cache_data is
\* awaited.
QDb(q) ==
    /\ qpc[q] = "db"
    /\ \E res \in QueryResults :
         query_result' = [query_result EXCEPT ![q] = res]
    /\ qpc' = [qpc EXCEPT ![q] = "set_cache"]
    /\ BumpCall(q, "set")
    /\ UNCHANGED <<cache, qreq, rawData, cached_data, qresp, qArgs>>
    /\ UNCHANGED <<coordVars, linkVars, dlVars, dbVars,
                 seqVars, keyVars>>

QSetCacheNoStore(q) ==
    /\ qpc[q] = "set_cache"
    /\ qresp' = [qresp EXCEPT ![q] =
                    [code |-> HTTP_200_OK, body |-> query_result[q]]]
    /\ qpc' = [qpc EXCEPT ![q] = "done"]
    /\ UNCHANGED <<cache, qreq, rawData, cached_data, query_result, qCalls,
                   qArgs>>
    /\ UNCHANGED <<coordVars, linkVars, dlVars, dbVars,
                 seqVars, keyVars>>

\* caching.py:72-75, get_data.py:51-52,111-113,172-174: the value is stored
\* and the handler returns query_result.
QSetCache(q) ==
    /\ qpc[q] = "set_cache"
    /\ LET key == cache_key(qreq[q])
       IN  cache' = [k \in DOMAIN cache \cup {key} |->
                        IF k = key THEN serialize(query_result[q])
                        ELSE cache[k]]
    /\ qresp' = [qresp EXCEPT ![q] =
                    [code |-> HTTP_200_OK, body |-> query_result[q]]]
    /\ qpc' = [qpc EXCEPT ![q] = "done"]
    /\ UNCHANGED <<qreq, rawData, cached_data, query_result, qCalls, qArgs>>
    /\ UNCHANGED <<coordVars, linkVars, dlVars, dbVars,
                 seqVars, keyVars>>

\* caching.py:74  ex=expire: redis drops the entry when its time is up
Expire ==
    /\ \E key \in DOMAIN cache :
         cache' = [k \in DOMAIN cache \ {key} |-> cache[k]]
    /\ UNCHANGED <<qpc, qreq, rawData, cached_data, query_result, qresp,
                   qCalls, qArgs>>
    /\ UNCHANGED <<coordVars, linkVars, dlVars, dbVars,
                 seqVars, keyVars>>

InitCache ==
    /\ CoordIdle
    /\ LinksIdle
    /\ DlIdle
    /\ DbIdle
    /\ CacheIdle
    /\ SeqIdle
    /\ KeysIdle

NextCache ==
    \/ \E q \in QReqs : QStart(q)
    \/ \E q \in QReqs : QGetCache(q)
    \/ \E q \in QReqs : QDb(q)
    \/ \E q \in QReqs : QSetCache(q)
    \/ Expire

SpecCache == InitCache /\ [][NextCache]_vars

\* ------------------------------------------------------ the service (Spec)
Init ==
    /\ LinksIdle
    /\ DlIdle
    /\ DbIdle
    /\ CacheIdle
    /\ SeqIdle
    /\ KeysIdle
    /\ ready = <<>>
    /\ reqPc = [r \in Reqs |-> "new"]
    /\ rowsInTable = [r \in Reqs |-> <<>>]
    /\ resp = [r \in Reqs |-> NoResponse]
    /\ runPc = [r \in Reqs |-> "none"]
    /\ runFail = [r \in Reqs |-> "none"]
    /\ runPage = [r \in Reqs |-> 0]
    /\ scrap_event = FALSE
    /\ dirExists = FALSE
    /\ dirFiles = {}
    /\ tableExists \in BOOLEAN
    /\ stored = 0
    /\ dbReads = 0

Next ==
    \/ \E r \in Reqs : Arrive(r)
    \/ \E r \in Reqs : ReqStart(r)
    \/ \E r \in Reqs : ReqRows(r)
    \/ \E t \in Reqs : RunStart(t)
    \/ \E t \in Reqs : RunLinks(t)
    \/ \E t \in Reqs : RunDownload(t)
    \/ \E t \in Reqs : RunExtract(t)
    \/ \E t \in Reqs : RunPersist(t)
    \/ Migrate

Spec == Init /\ [][Next]_vars

\* ------------------------------------------- the service, page by page
\* scraper.py:91-95,160-176: inside fetch_links, the page requested has
\* arrived, holds no entry that stops discovery, and its next-page control
\* names another listing page, which is requested in turn.  The loop keeps
\* no record of the pages it has visited and has no page limit.
RunNextPage(t) ==
    /\ runPc[t] = "links"
    /\ \E u \in Urls \ {runPage[t]} : runPage' = [runPage EXCEPT ![t] = u]
    /\ UNCHANGED <<ready, reqPc, rowsInTable, resp, runPc, runFail,
                   scrap_event, dirExists, dirFiles, tableExists, stored,
                   dbReads>>
    /\ UNCHANGED <<linkVars, dlVars, dbVars, cacheVars,
                 seqVars, keyVars>>

NextLive ==
    \/ Next
    \/ \E t \in Reqs : RunNextPage(t)

ReqStep(r) == ReqStart(r) \/ ReqRows(r)

RunStep(t) ==
    \/ RunStart(t)
    \/ RunLinks(t)
    \/ RunNextPage(t)
    \/ RunDownload(t)
    \/ RunExtract(t)
    \/ RunPersist(t)

\* The event loop runs every task that is ready, and every awaited request
\* (page, file, query) completes or times out: each handler and each
\* scraper task keeps taking its next step.  Which outcome an awaited
\* request has is the environment's choice.
Fairness ==
    \A r \in Reqs : WF_vars(ReqStep(r)) /\ WF_vars(RunStep(r))

SpecLive == Init /\ [][NextLive]_vars /\ Fairness

\* The same scheduling when fetch_links is taken as one awaited call.
SpecFair == Spec /\ Fairness

\* ------------------------------------- runs one after another on one site
\* Runs that do not overlap, on a listing of well-formed bulletin entries
\* that grows at its head.  Each run discovers, downloads what it can, and
\* commits the rows of the files it has.
MaxSite == 3
MaxRuns == 2

\* The rows extracted from the file of a bulletin carry the bulletin's date.
extract_date(ds) == strptime(ds)

get_last_date_oldest ==
    IF table = {} THEN NoDate
    ELSE CHOOSE d \in table : \A e \in table : DtLe(d, e)

\* query.py:89-96  select date ... order by date desc limit 1; None when
\* the table is empty
get_last_date ==
    IF table = {} THEN NoDate
    ELSE CHOOSE d \in table : \A e \in table : DtLe(e, d)

\* scraper.py:101-153,155-157: the entries in page order up to the first
\* one that meets the stop condition; each of the others gives a link.
RECURSIVE Scan(_, _)
Scan(entries, last_dt) ==
    IF entries = <<>> THEN <<>>
    ELSE IF StopCondition(strptime(Head(entries)), last_dt) THEN <<>>
    ELSE <<Head(entries)>> \o Scan(Tail(entries), last_dt)

DatesOf(seq) == {seq[k] : k \in 1..Len(seq)}

\* The exchange publishes a bulletin: a new entry at the head of the listing.
SitePublish ==
    /\ spc = "idle"
    /\ Len(site) < MaxSite
    /\ \E ds \in DateStrs : site' = <<ds>> \o site
    /\ UNCHANGED <<table, spc, found, fetched, loads_of, runsDone>>
    /\ UNCHANGED <<coordVars, linkVars, dlVars, dbVars, cacheVars, keyVars>>

\* main.py:57  fetch_links returns the links
SeqDiscover ==
    /\ spc = "idle"
    /\ runsDone < MaxRuns
    /\ found' = Scan(site, get_last_date)
    /\ spc' = "found"
    /\ UNCHANGED <<site, table, fetched, loads_of, runsDone>>
    /\ UNCHANGED <<coordVars, linkVars, dlVars, dbVars, cacheVars, keyVars>>

\* main.py:58, scraper.py:196-203  download returns; any of the downloads
\* may have failed and left no file
SeqDownload ==
    /\ spc = "found"
    /\ \E ok \in SUBSET DatesOf(found) : fetched' = ok
    /\ spc' = "fetched"
    /\ UNCHANGED <<site, table, found, loads_of, runsDone>>
    /\ UNCHANGED <<coordVars, linkVars, dlVars, dbVars, cacheVars, keyVars>>

\* main.py:60-64, query.py:65-75  the rows of the files present are
\* committed, or create_data raises; the run ends
SeqCommit ==
    /\ spc = "fetched"
    /\ \/ /\ table' = table \cup {extract_date(ds) : ds \in fetched}
          /\ loads_of' = [ds \in DateStrs |->
                            IF ds \in fetched THEN loads_of[ds] + 1
                            ELSE loads_of[ds]]
       \/ UNCHANGED <<table, loads_of>>
    /\ spc' = "idle"
    /\ found' = <<>>
    /\ fetched' = {}
    /\ runsDone' = runsDone + 1
    /\ UNCHANGED site
    /\ UNCHANGED <<coordVars, linkVars, dlVars, dbVars, cacheVars, keyVars>>

InitRuns ==
    /\ CoordIdle
    /\ LinksIdle
    /\ DlIdle
    /\ DbIdle
    /\ CacheIdle
    /\ KeysIdle
    /\ site = <<>>
    /\ table = {}
    /\ spc = "idle"
    /\ found = <<>>
    /\ fetched = {}
    /\ loads_of = [ds \in DateStrs |-> 0]
    /\ runsDone = 0

NextRuns ==
    \/ SitePublish
    \/ SeqDiscover
    \/ SeqDownload
    \/ SeqCommit

SpecRuns == InitRuns /\ [][NextRuns]_vars

\* ------------------------------------------------ cache keys as strings
\* Requests whose string parameters contain the characters the keys are
\* built with.  The parameters are plain str / str | None: FastAPI puts no
\* constraint on them (get_data.py:58-60,119-121).
KeyRequests ==
    [endpoint : {"get_last_trading_dates"}, oil_id : {NotGiven},
     delivery_type_id : {NotGiven}, num : 1..MaxQDays,
     start_date : {GoodDate}]
    \cup [endpoint : {"get_dynamics"}, oil_id : {"A", "A_B"},
          delivery_type_id : {"C", "B_C"}, num : {0},
          start_date : {GoodDate}]
    \cup [endpoint : {"get_trading_results"}, oil_id : {NotGiven, "-", "A"},
          delivery_type_id : {NotGiven, "-", "A"}, num : {0, 1},
          start_date : {GoodDate}]

\* get_data.py:41,89-92,151-154  the f-string: the parts with "_" between
RECURSIVE fstring(_)
fstring(parts) ==
    IF Len(parts) = 1 THEN parts[1]
    ELSE parts[1] \o "_" \o fstring(Tail(parts))

\* A request reaches a query endpoint.
KeyArrive(q) ==
    /\ kreq[q] = NoRequest
    /\ \E req \in KeyRequests : kreq' = [kreq EXCEPT ![q] = req]
    /\ UNCHANGED kkey
    /\ UNCHANGED <<coordVars, linkVars, dlVars, dbVars, cacheVars, seqVars>>

\* get_data.py:41,81-92,140-154  the handler passes its checks and builds
\* cache_key
KeyBuild(q) ==
    /\ kreq[q] # NoRequest
    /\ kkey[q] = NoKey
    /\ Rejection(kreq[q]) = 0
    /\ kkey' = [kkey EXCEPT ![q] = fstring(cache_key(kreq[q]))]
    /\ UNCHANGED kreq
    /\ UNCHANGED <<coordVars, linkVars, dlVars, dbVars, cacheVars, seqVars>>

InitKeys ==
    /\ CoordIdle
    /\ LinksIdle
    /\ DlIdle
    /\ DbIdle
    /\ CacheIdle
    /\ SeqIdle
    /\ KeysIdle

NextKeys ==
    \/ \E q \in QReqs : KeyArrive(q)
    \/ \E q \in QReqs : KeyBuild(q)

SpecKeys == InitKeys /\ [][NextKeys]_vars

\* --------------------------------- the cache while a run commits its rows
\* celery_tasks.py:14-28, celery_app.py:46-54  reset_cache, run by the
\* scheduler once a day: flushdb drops every entry
reset_cache ==
    /\ cache' = <<>>
    /\ UNCHANGED <<qpc, qreq, rawData, cached_data, query_result, qresp,
                   qCalls, qArgs>>
    /\ UNCHANGED <<coordVars, linkVars, dlVars, dbVars, seqVars, keyVars>>

\* The service with the run launched by request 1 at its persistence step
\* (main.py:61), no other start request so far, and an empty cache.
InitStale ==
    /\ LinksIdle
    /\ DlIdle
    /\ DbIdle
    /\ CacheIdle
    /\ SeqIdle
    /\ KeysIdle
    /\ ready = <<>>
    /\ reqPc = [r \in Reqs |-> IF r = 1 THEN "done" ELSE "new"]
    /\ rowsInTable = [r \in Reqs |-> IF r = 1 THEN <<0>> ELSE <<>>]
    /\ resp = [r \in Reqs |-> IF r = 1 THEN LaunchedResponse ELSE NoResponse]
    /\ runPc = [r \in Reqs |-> IF r = 1 THEN "persist" ELSE "none"]
    /\ runFail = [r \in Reqs |-> "none"]
    /\ runPage = [r \in Reqs |-> 0]
    /\ scrap_event = TRUE
    /\ dirExists = TRUE
    /\ dirFiles \in {{}, {1}}
    /\ tableExists = TRUE
    /\ stored = 0
    /\ dbReads = 1

NextStale ==
    \/ NextCache
    \/ \E t \in Reqs : RunPersist(t)
    \/ reset_cache

SpecStale == InitStale /\ [][NextStale]_vars

\* ====================================================================
\* Properties of the start-scrap endpoint and the run (Spec)
\* ====================================================================

Running == {t \in Reqs : Active(t)}

\* C1: single-flight -- under every interleaving of start-scrap requests at
\* most one scrape run is executing at a time, and at most one request is
\* answered "run launched" while a run is pending or executing.
C1_SingleFlight == Cardinality(Running) <= 1

EndsNow(t) == runPc[t] # "done" /\ runPc'[t] = "done"

\* C2: cleanup invariant -- at the step at which a run ends, after success
\* or after a failure at any stage, the scratch directory does not exist
\* and the single-flight flag is clear.
C2_CleanupInvariant ==
    [][\A t \in Reqs : EndsNow(t) => (~dirExists' /\ ~scrap_event')]_vars

C2_Witness ==
    \E t, u \in Reqs :
        /\ runPc[t] = "done" /\ runFail[t] = "none"
        /\ runPc[u] = "done" /\ runFail[u] \in {"links", "download", "extract", "persist"}
        /\ ~dirExists /\ ~scrap_event

\* C3 as stated: a finished start-scrap request was answered 202 (run
\* launched), 200 "already running" or 404 "migration needed".
C3_ThreeOutcomes_Original ==
    \A r \in Reqs : reqPc[r] = "done" =>
        \/ resp[r].code = 202 /\ runPc[r] # "none"
        \/ resp[r].code = 200 /\ runPc[r] = "none" /\ rowsInTable[r] = <<>>
        \/ resp[r].code = 404 /\ runPc[r] = "none" /\ rowsInTable[r] = <<-1>>

\* C3 amended: a finished start-scrap request was answered with exactly one
\* of: 201 "The scraper is running." when it launched a run, 200 "Another
\* scraper is working now." when it found the flag set (no row count taken),
\* 404 "Migration needs to be done." when the row count was -1.
C3_ThreeOutcomes ==
    \A r \in Reqs : reqPc[r] = "done" =>
        \/ /\ resp[r] = [code |-> 201, msg |-> "The scraper is running."]
           /\ runPc[r] # "none"
           /\ rowsInTable[r] # <<>> /\ rowsInTable[r] # <<-1>>
        \/ /\ resp[r] = [code |-> 200, msg |-> "Another scraper is working now."]
           /\ runPc[r] = "none"
           /\ rowsInTable[r] = <<>>
        \/ /\ resp[r] = [code |-> 404, msg |-> "Migration needs to be done."]
           /\ runPc[r] = "none"
           /\ rowsInTable[r] = <<-1>>

C3_Witness ==
    \E a, b, c \in Reqs :
        /\ reqPc[a] = "done" /\ resp[a].code = 201
        /\ reqPc[b] = "done" /\ resp[b].code = 200
        /\ reqPc[c] = "done" /\ resp[c].code = 404

\* C4: precondition failure -- a request whose row count is -1 is answered
\* "migration needed" and never has a run: the step that receives the -1
\* creates no task and leaves the flag and the scratch directory as they
\* are.
C4_PreconditionFailure ==
    [][\A r \in Reqs : rowsInTable'[r] = <<-1>> =>
          /\ resp'[r] = [code |-> 404, msg |-> "Migration needs to be done."]
          /\ runPc'[r] = "none"
          /\ rowsInTable[r] = <<>> =>
                UNCHANGED <<runPc, ready, scrap_event, dirExists, dirFiles>>]_vars

C4_Witness ==
    \E r \in Reqs :
        /\ rowsInTable[r] = <<-1>>
        /\ reqPc[r] = "done"
        /\ resp[r].code = 404
        /\ \E t \in Reqs : runPc[t] = "done"

\* C5: concurrency conflict -- the step that answers "already running" is
\* the handler's first step (it was never suspended), it finds the flag set,
\* creates no task, leaves the flag, the scratch directory and its files as
\* they are and issues no storage query.
C5_ConflictFrame ==
    [][\A r \in Reqs :
          (resp[r] = NoResponse /\ resp'[r].code = 200) =>
              /\ reqPc[r] = "queued" /\ reqPc'[r] = "done"
              /\ scrap_event
              /\ ready' = Tail(ready)
              /\ UNCHANGED <<runPc, scrap_event, dirExists, dirFiles, dbReads,
                             stored, rowsInTable, tableExists>>]_vars

C5_Witness ==
    \E r, t \in Reqs :
        /\ reqPc[r] = "done"
        /\ resp[r] = [code |-> 200, msg |-> "Another scraper is working now."]
        /\ Active(t)

\* C16: detached run -- the step that answers "run launched" is the step
\* that creates the task: the run has not executed any stage by then, the
\* handler is finished, and no later step of the run (success or failure at
\* any stage) changes a response once given.
C16_DetachedRun ==
    [][\A r \in Reqs :
          /\ (resp[r] = NoResponse /\ resp'[r].code = 201) =>
                 /\ runPc[r] = "none"
                 /\ runPc'[r] = "created"
                 /\ reqPc'[r] = "done"
          /\ resp[r] # NoResponse =>
                 /\ resp'[r] = resp[r]
                 /\ reqPc'[r] = "done"]_vars

C16_Witness ==
    \E r, u \in Reqs :
        /\ resp[r].code = 201 /\ runPc[r] = "done" /\ runFail[r] = "download"
        /\ resp[u].code = 201 /\ runPc[u] = "persist"

\* C17: the single-flight flag tracks the run state exactly -- the flag is
\* set whenever some run is executing one of its stages and clear whenever
\* none is, under any interleaving of start requests and runs.
C17_FlagTracksRun == scrap_event <=> Running # {}

UsesDir(u) == runPc[u] \in {"download", "extract"}

\* C18: scratch-directory exclusivity -- no run removes the scratch
\* directory, or writes its files into it, while a different run is
\* downloading into or extracting from it.
C18_ScratchExclusive ==
    [][\A t \in Reqs : \A u \in Reqs \ {t} :
          UsesDir(u) =>
              /\ ~(EndsNow(t) /\ dirExists /\ ~dirExists')
              /\ ~(t \notin dirFiles /\ t \in dirFiles')]_vars

\* C19: every started run eventually ends -- under fair scheduling and
\* requests that each complete or time out, a run that has set the flag
\* eventually reaches the end of its cleanup step.
C19_RunEnds == \A t \in Reqs : Active(t) ~> (runPc[t] = "done")

StageAfter(stage) ==
    CASE stage = "none" -> "created"
      [] stage = "created" -> "links"
      [] stage = "links" -> "download"
      [] stage = "download" -> "extract"
      [] stage = "extract" -> "persist"
      [] OTHER -> "done"

\* C23: stage ordering within one run -- a run moves from link discovery
\* to download, from download to extraction and from extraction to
\* persistence only, each time when the stage before has returned without
\* failure; the step at which a stage fails ends the run, and a run that
\* has ended executes no further stage.
C23_StageOrdering ==
    [][\A t \in Reqs :
          /\ runPc'[t] # runPc[t] =>
                \/ runPc'[t] = StageAfter(runPc[t]) /\ runFail'[t] = "none"
                \/ Active(t) /\ runPc'[t] = "done"
          /\ runFail'[t] # runFail[t] => (Active(t) /\ runPc'[t] = "done")
          /\ runPc[t] = "done" => runPc'[t] = "done"]_vars

C23_Witness ==
    \E t, u \in Reqs :
        /\ runPc[t] = "done" /\ runFail[t] = "extract"
        /\ runPc[u] = "done" /\ runFail[u] = "none"
        /\ stored = 1

\* C24: a failure of link discovery (a listing page request that fails or
\* times out) is fatal for the run -- the step at which it happens ends the
\* run: the run goes to no download, extraction or persistence stage, has
\* written no file, stores nothing, and the cleanup step is executed
\* (the directory it finds is removed and the flag cleared).
C24_DiscoveryFailure ==
    [][\A t \in Reqs :
          (runPc[t] = "links" /\ runFail'[t] # "none") =>
              /\ runPc'[t] = "done"
              /\ runFail'[t] \in {"links", "rmtree"}
              /\ t \notin dirFiles
              /\ stored' = stored
              /\ dirExists => (~dirExists' /\ ~scrap_event' /\ dirFiles' = {})
              /\ ~dirExists => runFail'[t] = "rmtree"]_vars

C24_Witness ==
    \E t, u \in Reqs :
        /\ runPc[t] = "done" /\ runFail[t] = "links"
        /\ Active(u)
        /\ stored = 0

\* C29: link discovery terminates -- on a site with finitely many pages,
\* also one whose next-page controls lead back to a page already visited
\* and on which no entry stops discovery, a run that is in its discovery
\* stage eventually leaves it.
C29_DiscoveryTerminates ==
    \A t \in Reqs : (runPc[t] = "links") ~> (runPc[t] # "links")

C31_FlagImpliesDir == scrap_event => dirExists

C31_Witness ==
    /\ scrap_event
    /\ dirExists
    /\ \E t, u \in Reqs :
         /\ t # u
         /\ Active(t)
         /\ runPc[u] = "done" /\ runFail[u] = "rmtree"

\* C32: the flag is never left set with no run in progress -- in every
\* state in which no run is executing the flag is clear, also after a run
\* whose removal of the scratch directory raised.
C32_FlagNotStuck == Running = {} => ~scrap_event

C32_Witness ==
    /\ Running = {}
    /\ \A t \in Reqs : runPc[t] # "created"
    /\ \E t, u \in Reqs :
         /\ runPc[t] = "done" /\ runFail[t] = "rmtree"
         /\ runPc[u] = "done" /\ runFail[u] \in {"links", "download"}

Launched(r) ==
    resp[r] = LaunchedResponse /\ runPc[r] \in {"created"} \cup
        {"links", "download", "extract", "persist"}

\* C33: a start-scrap request whose handling begins after an earlier
\* request was answered "run launched", and before that run has ended,
\* finds the flag set and is answered "already running".
C33_LaterRequestRejected ==
    [][\A r \in Reqs :
          (reqPc[r] = "queued" /\ reqPc'[r] # "queued"
              /\ \E e \in Reqs \ {r} : Launched(e))
          => (scrap_event /\ resp'[r] = AlreadyRunningResponse)]_vars

\* C34: a run writes to storage only in its persistence step -- the steps
\* of its discovery, download and extraction stages leave the stored rows
\* unchanged, the stored rows do not change for as long as the run is in
\* discovery (every read of the last persisted date gives the same value),
\* and the step at which a run fails leaves them unchanged.
C34_WritesOnlyAtPersist ==
    [][\A t \in Reqs :
          /\ (runPc[t] \in {"links", "download", "extract"}
                 /\ runPc'[t] # runPc[t]) => stored' = stored
          /\ runPc[t] = "links" => stored' = stored
          /\ (EndsNow(t) /\ runFail'[t] # "none") => stored' = stored]_vars

C36_KeyInjective ==
    \A p, q \in QReqs :
        (kkey[p] # NoKey /\ kkey[q] # NoKey
            /\ kreq[p].endpoint = kreq[q].endpoint
            /\ kreq[p] # kreq[q])
        => kkey[p] # kkey[q]

CacheAt(c, k) == IF k \in DOMAIN c THEN c[k] ELSE Nil

\* C37: a scrape run never touches the response cache -- the step at which
\* a run commits leaves every entry as it is; an entry changes only when a
\* handler stores its query result on the miss path, or when it is dropped
\* by expiry or by the flush; and once a run has committed, a handler that
\* finds an entry under its key still returns that entry, without a
\* database query.
C37_RunLeavesCache ==
    [][/\ (\E t \in Reqs : runPc'[t] # runPc[t]) => cache' = cache
       /\ \A k \in DOMAIN cache \cup DOMAIN cache' :
             CacheAt(cache', k) # CacheAt(cache, k) =>
                \/ k \notin DOMAIN cache'
                \/ \E q \in QReqs :
                      /\ qpc[q] = "set_cache" /\ qpc'[q] = "done"
                      /\ cache_key(qreq[q]) = k
                      /\ cache'[k] = serialize(query_result[q])
       /\ \A q \in QReqs :
             (qpc[q] = "get_cache" /\ qpc'[q] # "get_cache" /\ stored > 0
                 /\ RedisGet(cache_key(qreq[q])) # Nil) =>
                /\ qpc'[q] = "done"
                /\ qresp'[q] = [code |-> HTTP_200_OK,
                                body |-> loads(RedisGet(cache_key(qreq[q])))]
                /\ qCalls'[q] = qCalls[q]]_vars

\* ====================================================================
\* Properties of link discovery (SpecLinks)
\* ====================================================================

\* The displayed date lies strictly after the last persisted date, or
\* nothing is persisted.
After(ds, last) == last = NoDate \/ ~DtLe(strptime(ds), last)

InCutoffYear(ds) == ds[2] = CUTOFF_YEAR

Positions ==
    UNION {{<<p, i>> : i \in 1..Len(listing[p])} : p \in 1..Len(listing)}

BlockAt(pos) == listing[pos[1]][pos[2]]

Earlier(a, b) == a[1] < b[1] \/ (a[1] = b[1] /\ a[2] < b[2])

\* The block lies, on its page, behind a block without the marker.
BehindOther(pos) ==
    \E i \in 1..(pos[2] - 1) : listing[pos[1]][i].kind = "other"

\* The for loop has taken the block (it does not lie behind a stop or
\* behind a block without the marker).
Taken(pos) ==
    /\ pos[1] < Len(listing) \/ pos[2] <= scanned
    /\ ~BehindOther(pos)

WellFormed(b) == b.kind = "bulletin" /\ b.href # NotAString

Stops(b) ==
    b.kind = "bulletin" /\ (~After(b.ds, lastDate) \/ InCutoffYear(b.ds))

HasLink(b) == \E k \in 1..Len(links) : links[k] = MakeLink(b)

\* C6: stop condition, exclusion -- whatever the pages and the last
\* persisted date L, no link is output for an entry whose displayed date is
\* equal to or earlier than L.
C6_Exclusion ==
    \A k \in 1..Len(links) :
        lastDate # NoDate => ~DtLe(strptime(links[k].filename.ds), lastDate)

C6_Witness ==
    /\ lpc = "returned"
    /\ stopParsing
    /\ Len(links) >= 1
    /\ lastDate # NoDate
    /\ strptime(CurPage[scanned].ds) = lastDate
    /\ \E pos \in Positions :
         /\ ~Taken(pos)
         /\ BlockAt(pos).kind = "bulletin"
         /\ ~InCutoffYear(BlockAt(pos).ds)
         /\ ~After(BlockAt(pos).ds, lastDate)

\* C7 as stated: when discovery returns, every well-formed bulletin entry
\* of the fetched pages dated strictly after L and outside the cutoff year
\* has a link, whatever the order of the entries.
C7_Inclusion_Original ==
    lpc = "returned" =>
        \A pos \in Positions :
            (WellFormed(BlockAt(pos)) /\ ~Stops(BlockAt(pos)))
                => HasLink(BlockAt(pos))

\* The block is met before any stopping block, and no block without the
\* marker precedes it on its page.
Reached(pos) ==
    /\ \A p \in 1..(pos[1] - 1) : \A i \in 1..Len(listing[p]) :
          BehindOther(<<p, i>>) \/ ~Stops(listing[p][i])
    /\ \A i \in 1..(pos[2] - 1) :
          /\ ~Stops(listing[pos[1]][i])
          /\ listing[pos[1]][i].kind = "bulletin"

Due == {pos \in Positions : Reached(pos) /\ WellFormed(BlockAt(pos)) /\ ~Stops(BlockAt(pos))}

\* C7 amended: when discovery returns, the links are exactly those of the
\* bulletin entries dated strictly after L and outside the cutoff year that
\* come, in page order, before the first entry dated at or before L or in
\* the cutoff year (and before the first entry without the marker on their
\* page); an entry behind that stopping entry gets no link, whatever its
\* date.
C7_Inclusion ==
    lpc = "returned" =>
        LET due == Due
        IN  /\ \A pos \in due : HasLink(BlockAt(pos)) /\ Taken(pos)
            /\ Len(links) = Cardinality(due)

C7_Witness ==
    /\ lpc = "returned"
    /\ stopParsing
    /\ Len(listing) = 2
    /\ Len(links) >= 1
    /\ lastDate # NoDate
    /\ \E pos \in Positions :
         ~Taken(pos) /\ WellFormed(BlockAt(pos)) /\ ~Stops(BlockAt(pos))

\* C8: historical cutoff -- a bulletin entry dated in 2022 that the scan
\* has taken is the last block taken: discovery is at its stop check or has
\* returned with stop_parsing set, no page was requested after it, and no
\* link carries a 2022 date -- also when the date is after L or L is None.
C8_HistoricalCutoff ==
    /\ \A pos \in Positions :
         (Taken(pos) /\ BlockAt(pos).kind = "bulletin" /\ InCutoffYear(BlockAt(pos).ds)) =>
             /\ pos = <<Len(listing), scanned>>
             /\ pageCount = Len(listing)
             /\ lpc \in {"lastdate", "returned"}
             /\ lpc = "returned" => stopParsing
    /\ \A k \in 1..Len(links) : ~InCutoffYear(links[k].filename.ds)

C8_Witness ==
    /\ lpc = "returned"
    /\ Len(links) >= 1
    /\ InCutoffYear(CurPage[scanned].ds)
    /\ WellFormed(CurPage[scanned])
    /\ lastDate # NoDate
    /\ After(CurPage[scanned].ds, lastDate)

Malformed(b) ==
    b.kind \in {"noanchor", "nospan"} \/ (b.kind = "bulletin" /\ b.href = NotAString)

\* C9 as stated: discovery never returns normally from pages that hold a
\* malformed entry (no anchor, no date span, href not a string).
C9_MalformedEntry_Original ==
    lpc = "returned" => \A pos \in Positions : ~Malformed(BlockAt(pos))

\* The scan has taken the block and reached the check the block fails.
Detected(pos) ==
    /\ Taken(pos)
    /\ \/ BlockAt(pos).kind \in {"noanchor", "nospan"}
       \/ /\ BlockAt(pos).kind = "bulletin"
          /\ BlockAt(pos).href = NotAString
          /\ ~Stops(BlockAt(pos))
          /\ ~(pos = <<Len(listing), scanned>> /\ lpc = "lastdate")

\* C9 amended: an entry without an anchor, a bulletin entry without a date
\* span, and a bulletin entry dated after L and outside 2022 whose href is
\* not a string make discovery abort with ValueError when the scan takes
\* them: nothing is scanned or fetched behind them and discovery does not
\* return.  Entries the scan does not reach, and the href of the entry at
\* which discovery stops, are not checked.
C9_MalformedEntry ==
    \A pos \in Positions : Detected(pos) =>
        /\ pos = <<Len(listing), scanned>>
        /\ pageCount = Len(listing)
        /\ lpc = "raised"
        /\ lerr = "ValueError"
        /\ ~HasLink(BlockAt(pos))

C9_Witness ==
    /\ lpc = "raised"
    /\ Len(links) >= 1
    /\ \E pos \in Positions : Detected(pos) /\ BlockAt(pos).kind = "bulletin"

CurBlocks == IF listing = <<>> THEN <<>> ELSE CurPage

\* C27: an entry without the bulletin marker ends the scan of its page
\* only.  While its page is the current one the scan stands at that entry
\* (no later entry of the page is taken), discovery has gone on to the
\* next-page control without the stop flag, and it returns from that page
\* only when the control is absent; a following page is fetched and
\* scanned.  A link is only ever appended for the entry the scan stands at,
\* so an entry behind it produces none.
C27_NonBulletinEndsPage ==
    /\ [](\A i \in 1..Len(CurBlocks) :
            (CurBlocks[i].kind = "other" /\ Taken(<<Len(listing), i>>)) =>
                /\ scanned = i
                /\ ~stopParsing
                /\ lpc \in {"paginate", "fetch", "returned", "raised"}
                /\ lpc = "returned" => nextCtl.kind = "absent"
                /\ lpc = "fetch" => nextCtl.kind = "next")
    /\ [][/\ links' # links =>
               /\ lpc = "lastdate"
               /\ links' = Append(links, MakeLink(CurPage[scanned]))
          /\ (lpc = "fetch" /\ lpc' = "scan") =>
               (Len(listing') = Len(listing) + 1 /\ scanned' = 0)]_vars

C27_Witness ==
    /\ lpc = "lastdate"
    /\ Len(listing) = 2
    /\ \E i \in 1..Len(listing[1]) :
         /\ listing[1][i].kind = "other"
         /\ i < Len(listing[1])
         /\ WellFormed(listing[1][i + 1])
         /\ ~Stops(listing[1][i + 1])

\* Once stopped by the date/cutoff condition: discovery returns at that
\* step with the links it has, and no page is requested afterwards.
StoppedStays ==
    /\ (stopParsing' /\ ~stopParsing) => (lpc' = "returned" /\ links' = links)
    /\ stopParsing' => (lpc' = "returned" /\ pageCount' = Len(listing'))
    /\ pageCount' # pageCount => (lpc = "paginate" /\ ~stopParsing)

\* C28 as stated: after a page is scanned the next page is fetched if and
\* only if discovery was not stopped and the page has a next-page control.
C28_Pagination_Original ==
    [][/\ lpc = "paginate" =>
              ((lpc' = "fetch") <=> (~stopParsing /\ nextCtl'.kind # "absent"))
       /\ StoppedStays]_vars

\* C28 amended: after a page is scanned without a stop, discovery reads
\* the next-page control.  A control with an anchor whose href is a string
\* is followed: that href becomes the current page and one more page is
\* requested.  No control ends discovery normally with the links collected
\* so far.  A control without an anchor, or whose href is not a string,
\* aborts discovery with ValueError; no page is requested.  Once stopped
\* by the date/cutoff condition no further page is requested.
C28_Pagination ==
    [][/\ lpc = "paginate" =>
              /\ ~stopParsing
              /\ (lpc' = "fetch") <=> (nextCtl'.kind = "next")
              /\ lpc' = "fetch" =>
                    (currentPage' = nextCtl'.url /\ pageCount' = pageCount + 1)
              /\ nextCtl'.kind = "absent" =>
                    (lpc' = "returned" /\ links' = links /\ pageCount' = pageCount)
              /\ nextCtl'.kind \in {"noanchor", "badhref"} =>
                    (lpc' = "raised" /\ lerr' = "ValueError" /\ pageCount' = pageCount)
       /\ StoppedStays]_vars

C28_Witness ==
    /\ lpc = "returned"
    /\ ~stopParsing
    /\ Len(listing) = 2
    /\ pageCount = 2
    /\ nextCtl.kind = "absent"
    /\ Len(links) >= 1

\* ====================================================================
\* Properties of the batch download (SpecDl)
\* ====================================================================

\* C10: download isolation -- whatever subset of the downloads fails with a
\* network error or a timeout, the batch call does not raise.
C10_DownloadIsolation == dpc # "raised"

Succeeded(f) == \E i \in Tasks : FileOf(i) = f /\ taskPc[i] = "ok"

\* C11: after the batch download returns, the files present in the
\* destination directory are exactly those of the links whose download
\* succeeded -- a download that fails before the response or part-way
\* through the body leaves no file, complete or partial.
C11_OnlySucceededFiles ==
    dpc = "returned" =>
        \A f \in FileNames : destFiles[f] # "absent" <=> Succeeded(f)

Unfinished(i) == taskPc[i] \in {"pending", "streaming"}

\* C25: the batch download returns, normally or by raising, only when
\* every download of the batch has finished -- once download has handed
\* control back to the run, no get_file task is still waiting for its
\* response or writing its file.
C25_BatchJoined ==
    dpc \in {"returned", "raised"} => \A i \in Tasks : ~Unfinished(i)

\* C26: distinct links of one run have distinct destination filenames --
\* no two downloads of different URLs are writing the same file of the
\* scratch directory at the same time.
C26_UniqueFiles ==
    \A i, j \in Tasks :
        (dlLinks[i].url # dlLinks[j].url
            /\ taskPc[i] = "streaming" /\ taskPc[j] = "streaming")
        => FileOf(i) # FileOf(j)

\* ====================================================================
\* Properties of persistence (SpecDb)
\* ====================================================================

RECURSIVE Flatten(_)
Flatten(d) == IF d = <<>> THEN <<>> ELSE Head(d) \o Flatten(Tail(d))

TotalRows(d) == Len(Flatten(d))

HasInvalidRow(d) == \E k \in 1..TotalRows(d) : ValidationFails(Flatten(d)[k])

\* C12: all-or-nothing persistence -- when at least one row of the input,
\* in any group at any position, fails schema validation, the persist call
\* does not return normally and commits nothing: the table keeps the rows it
\* had, and once the call has raised no added model is left pending, also
\* for groups added to the session before the failing row was reached.
C12_AllOrNothing ==
    HasInvalidRow(data) =>
        /\ ppc # "returned"
        /\ commits = 0
        /\ Len(dbRows) = rowsBefore
        /\ ppc = "raised" => (perr = "ValidationError" /\ pending = <<>>)

C12_Witness ==
    /\ ppc = "raised"
    /\ perr = "ValidationError"
    /\ fileIdx = 1
    /\ addCalls = <<2>>
    /\ ~ValidationFails(data[2][1])
    /\ ValidationFails(data[2][2])
    /\ rowsBefore = 1
    /\ dbRows = <<ValidRow>>

\* C13: single commit -- a persist call commits at most once and only after
\* every file-group has been added; nothing reaches the table before that
\* commit; a call that returns has made one add_all call per file-group, in
\* order, with as many models as the group has rows, and exactly one commit.
C13_SingleCommit ==
    /\ commits <= 1
    /\ commits = 1 => (fileIdx = Len(data) /\ Len(addCalls) = Len(data))
    /\ commits = 0 => Len(dbRows) = rowsBefore
    /\ ppc = "returned" =>
         /\ commits = 1
         /\ addCalls = [g \in 1..Len(data) |-> Len(data[g])]

C13_Witness ==
    /\ ppc = "returned"
    /\ commits = 1
    /\ addCalls = <<1, 2>>

\* C14: after a persist call on valid rows has returned, the table holds
\* the rows it had followed by every input row once, in input order: the
\* number of stored rows has grown by the total number of input rows.
C14_RowCount ==
    ppc = "returned" =>
        /\ Len(dbRows) = rowsBefore + TotalRows(data)
        /\ dbRows = SubSeq(dbRows, 1, rowsBefore) \o Flatten(data)

C14_Witness ==
    /\ ppc = "returned"
    /\ rowsBefore = 1
    /\ Len(data) = 2
    /\ Len(data[1]) = 2
    /\ Len(data[2]) = 1
    /\ Len(dbRows) = 4

SpecAccepts(row) ==
    /\ row.exchange_product_id <= 11
    /\ row.exchange_product_name <= 255
    /\ row.oil_id <= 4
    /\ row.delivery_basis_id <= 3
    /\ row.delivery_basis_name <= 255
    /\ row.delivery_type_id = 1

\* C15: row validation accepts a row if and only if exchange_product_id has
\* at most 11 characters, exchange_product_name at most 255, oil_id at most
\* 4, delivery_basis_id at most 3, delivery_basis_name at most 255 and
\* delivery_type_id exactly 1 character; a rejection raises, and an
\* accepted row is added with every field value unchanged.
C15_RowValidation ==
    /\ \A g \in 1..fileIdx : \A k \in 1..Len(data[g]) : SpecAccepts(data[g][k])
    /\ (ppc = "raised" /\ perr = "ValidationError") =>
           \E k \in 1..Len(data[fileIdx + 1]) : ~SpecAccepts(data[fileIdx + 1][k])
    /\ ppc \in {"loop", "commit"} =>
           pending = Flatten(SubSeq(data, 1, fileIdx))

\* ====================================================================
\* Properties of the query endpoints (SpecCache)
\* ====================================================================

HasRead(q) == qpc[q] \in {"db", "set_cache", "done"} /\ qCalls[q].get = 1

\* C20: cache hit -- whenever the cache holds a value under the request's
\* key when the handler reads it, the handler returns that value with
\* status 200 at once, without a database query and without a cache write;
\* this for every cached value, the empty list included.
C20_CacheHit ==
    \A q \in QReqs :
        (HasRead(q) /\ rawData[q] # Nil) =>
            /\ qpc[q] = "done"
            /\ qresp[q] = [code |-> 200, body |-> List(rawData[q].json)]
            /\ qCalls[q].db = 0
            /\ qCalls[q].set = 0

Missed(q) == HasRead(q) /\ rawData[q] = Nil

QueryFn(endpoint) ==
    CASE endpoint = "get_last_trading_dates" -> "q_get_last_trading_dates"
      [] endpoint = "get_dynamics" -> "q_get_dynamics"
      [] endpoint = "get_trading_results" -> "q_get_trading_results"

\* C21: cache miss -- a handler that found nothing cached under its key
\* has read the cache once and queried the database once, through the
\* endpoint's query function and with the request's parameters; when it
\* returns it has called set_cache_data once, the step that ends it stores
\* the bytes of the query result under the request's key (no other key
\* changes), and its response is the query result with status 200.
C21_CacheMiss ==
    /\ [](\A q \in QReqs : Missed(q) =>
            /\ qCalls[q].get = 1
            /\ qCalls[q].db = 1
            /\ qArgs[q].fn = QueryFn(qreq[q].endpoint)
            /\ qArgs[q].oil_id = qreq[q].oil_id
            /\ qArgs[q].delivery_type_id = qreq[q].delivery_type_id
            /\ qArgs[q].num = qreq[q].num
            /\ qreq[q].endpoint = "get_dynamics" =>
                   qArgs[q].date = [y |-> 2025, m |-> 4, d |-> 1]
            /\ qpc[q] = "done" =>
                   /\ qCalls[q].set = 1
                   /\ qresp[q] = [code |-> 200, body |-> query_result[q]])
    /\ [][\A q \in QReqs :
            (Missed(q) /\ qpc[q] # "done" /\ qpc'[q] = "done") =>
                LET key == cache_key(qreq[q])
                IN  /\ key \in DOMAIN cache'
                    /\ cache'[key] = [is |-> "bytes", json |-> query_result[q].list]
                    /\ \A k \in DOMAIN cache \ {key} :
                         k \in DOMAIN cache' /\ cache'[k] = cache[k]
                    /\ DOMAIN cache' \subseteq DOMAIN cache \cup {key}]_vars

C21_Witness ==
    \E q, r \in QReqs :
        /\ q # r
        /\ Missed(q) /\ qpc[q] = "done"
        /\ qreq[q].endpoint = "get_trading_results"
        /\ query_result[q] = List(<<"r1">>)
        /\ cache_key(qreq[q]) \in DOMAIN cache
        /\ Missed(r) /\ qpc[r] = "done"
        /\ qreq[r].endpoint = "get_dynamics"
        /\ Cardinality(DOMAIN cache) = 2

Supplied(x) == x # NotGiven /\ x # ""

Untouched(q) ==
    /\ qpc[q] = "done"
    /\ qCalls[q] = [get |-> 0, db |-> 0, set |-> 0]
    /\ qArgs[q] = NoArgs
    /\ rawData[q] = Nil

\* C22: get-trading-results rejects invalid requests before the cache and
\* the database -- with no value for any of the trading parameters the
\* answer is 404, otherwise with limit <= 0 it is 400; the handler then
\* has made no cache read, no database query and no cache write, and the
\* rejecting step leaves the cache as it is.
C22_RejectsFirst ==
    /\ [](\A q \in QReqs :
            (qpc[q] # "new" /\ qreq[q].endpoint = "get_trading_results") =>
                IF ~Supplied(qreq[q].oil_id) /\ ~Supplied(qreq[q].delivery_type_id)
                THEN qresp[q].code = 404 /\ Untouched(q)
                ELSE IF qreq[q].num <= 0
                THEN qresp[q].code = 400 /\ Untouched(q)
                ELSE qresp[q].code \notin {400, 404})
    /\ [][\A q \in QReqs :
            (qpc[q] = "new" /\ qresp'[q].code \in {400, 404}) =>
                cache' = cache]_vars

C22_Witness ==
    \E q, r \in QReqs :
        /\ qreq[q].endpoint = "get_trading_results"
        /\ qreq[q].oil_id = "" /\ qreq[q].num = 0
        /\ qresp[q].code = 404
        /\ qreq[r].endpoint = "get_trading_results"
        /\ qreq[r].delivery_type_id = "A" /\ qreq[r].num = 0
        /\ qresp[r].code = 400

====
